---------------------------- MODULE Spec2Model ----------------------------
(***************************************************************************)
(* Tagged-block extraction and diff reconstruction (app/utils/parseTags)   *)
(* and the heading filter of SectionViewer.                                *)
(*                                                                         *)
(* A string is a sequence of one-character strings.  An offset i is the    *)
(* JavaScript index: the character at offset i is s[i + 1].  The two       *)
(* bracket characters U+3010 and U+3011 of the field labels are written    *)
(* "[[" and "]]" (one symbol each), the eight characters of the marker     *)
(* phrase are written by their code points.                                *)
(***************************************************************************)
EXTENDS Integers, Sequences, FiniteSets, TLC

VARIABLES
    parts,           \* the drawn input: its blocks, spans or regions, in order
    raw,             \* the string handed to the last extractor call
    pairs,           \* the ProcessedSentencePair list handed to buildDiffRecords
    stage1Items,     \* result of the last parseStage1 call
    stage2Clusters,  \* result of the last parseStage2 call
    segments,        \* result of the last toDiffSegments call
    produced,        \* buildDiffRecords' results as pushed, before the sort
    records,         \* result of the last buildDiffRecords call
    metrics,         \* result of the last computeDiffMetrics call
    matches,         \* the matches the items of the last call were built from
    sections,        \* the SectionContentRecord list handed to SectionViewer
    visibleSections, \* SectionViewer: the sections it shows
    filteredDiffRecords, \* SectionViewer: the diff records it keeps
    lastIndex,       \* lastIndex of each module-level global pattern
    serverLastIndex, \* the same, of the module instance the POST route runs
    nestedEntries,   \* lastIndex of the patterns of buildDiffRecords at each
                     \* entry of toDiffSegments from its loop, in the last call
    called,          \* the extractor called last ("none" before any call)
    oldFile,         \* FileUploader: the old document selected, or none
    newFile,         \* FileUploader: the new document selected, or none
    status,          \* usePythonRunner: "idle", "running", "success", "error"
    error,           \* usePythonRunner: the failure message, or null
    result,          \* usePythonRunner: the payload of the last success, or null
    ticker,          \* HomePage: the ticker of the last run, or null
    inFlight,        \* the calls of run that have neither resolved nor rejected
    started,         \* the number of calls of run so far
    request,         \* POST: the form data of the request handled last
    environment,     \* POST: what the file system and subprocesses did
    response,        \* POST: the response returned, or none
    tempDirs,        \* POST: temp directories created for the request
    spawned          \* POST: subprocesses started for the request, in order

viewVars == <<sections, visibleSections, filteredDiffRecords>>

pageVars ==
    <<oldFile, newFile, status, error, result, ticker, inFlight, started>>

routeVars == <<request, environment, response, tempDirs, spawned>>

vars ==
    <<parts, raw, pairs, stage1Items, stage2Clusters, segments, produced,
      records, metrics, matches, lastIndex, serverLastIndex, nestedEntries,
      called, viewVars, pageVars, routeVars>>

(***************************************************************************)
(* Bounds of the model.                                                    *)
(***************************************************************************)
MaxBlocks == 2

MaxSpans == 2

MaxRegions == 2

MaxViewPairs == 1

MaxViewSections == 1

MaxRecords == 3

MaxPieces == 2

MaxUnits == 2

(***************************************************************************)
(* Characters and literals.                                                *)
(***************************************************************************)
IsSpace(c) == c \in {" ", "\n", "\t"}

IsDigit(c) == c \in {"0", "1", "2", "3", "4", "5", "6", "7", "8", "9"}

NotGt(c) == c # ">"

LBr == "[["

RBr == "]]"

EditOpenLit == <<"<", "e", "d", "i", "t">>

EditCloseLit == <<"<", "/", "e", "d", "i", "t">>

ClusterOpenLit == <<"<", "C", "l", "u", "s", "t", "e", "r">>

ClusterCloseLit == <<"<", "/", "C", "l", "u", "s", "t", "e", "r">>

DescLit == <<"D", "e", "s", "c", ">">>

FactLabel == <<LBr, "F", "a", "c", "t", RBr>>

InsightLabel ==
    <<LBr, "I", "n", "v", "e", "s", "t", "o", "r", " ",
      "I", "n", "s", "i", "g", "h", "t", RBr>>

ImplicationLabel ==
    <<LBr, "I", "m", "p", "l", "i", "c", "a", "t", "i", "o", "n", RBr>>

ThemeLabel == <<LBr, "T", "h", "e", "m", "e", RBr>>

SummaryLabel == <<LBr, "S", "u", "m", "m", "a", "r", "y", RBr>>

MarkerPhrase ==
    <<"u8A72", "u5F53", "u3059", "u308B", "u7DE8", "u96C6", "u756A", "u53F7">>

(***************************************************************************)
(* String primitives.                                                      *)
(***************************************************************************)
Slice(s, from, to) == SubSeq(s, from + 1, to)

LitAt(s, i, lit) ==
    /\ i + Len(lit) <= Len(s)
    /\ \A k \in 1..Len(lit) : s[i + k] = lit[k]

\* The character classes of the patterns, by name.
InClass(class, c) ==
    CASE class = "space"   -> IsSpace(c)
      [] class = "digit"   -> IsDigit(c)
      [] class = "notGt"   -> NotGt(c)
      [] class = "newline" -> c = "\n"

\* End offset of the longest run of characters of a class starting at i.
RunEnd(class, s, i) ==
    CHOOSE e \in i..Len(s) :
        /\ \A k \in (i + 1)..e : InClass(class, s[k])
        /\ (e = Len(s) \/ ~InClass(class, s[e + 1]))

MinOf(S) == CHOOSE x \in S : \A y \in S : x <= y

DigitValue(c) ==
    CASE c = "0" -> 0 [] c = "1" -> 1 [] c = "2" -> 2 [] c = "3" -> 3
      [] c = "4" -> 4 [] c = "5" -> 5 [] c = "6" -> 6 [] c = "7" -> 7
      [] c = "8" -> 8 [] c = "9" -> 9

RECURSIVE ParseInt(_)
ParseInt(ds) ==
    IF ds = <<>> THEN 0
    ELSE 10 * ParseInt(SubSeq(ds, 1, Len(ds) - 1)) + DigitValue(ds[Len(ds)])

RECURSIVE CollapseSpaces(_)
CollapseSpaces(s) ==
    IF s = <<>> THEN <<>>
    ELSE IF IsSpace(s[1])
         THEN <<" ">> \o CollapseSpaces(Slice(s, RunEnd("space", s, 0), Len(s)))
         ELSE <<s[1]>> \o CollapseSpaces(Tail(s))

Trim(s) ==
    LET a == RunEnd("space", s, 0)
        b == IF a = Len(s) THEN a
             ELSE CHOOSE e \in (a + 1)..Len(s) :
                      /\ ~IsSpace(s[e])
                      /\ \A k \in (e + 1)..Len(s) : IsSpace(s[k])
    IN  Slice(s, a, b)

\* The replace forgotten: value.trim()
TrimOnly(value) == Trim(value)

\* value.replace(/\s+/g, " ").trim()
normalizeWhitespace(value) == Trim(CollapseSpaces(value))

(***************************************************************************)
(* Pattern matching.  A match carries the offset where it starts, the      *)
(* offset where it ends and its two capture groups.                        *)
(***************************************************************************)
NoMatch == [found |-> FALSE, index |-> 0, end |-> 0, g1 |-> <<>>, g2 |-> <<>>]

Match(i, e, a, b) == [found |-> TRUE, index |-> i, end |-> e, g1 |-> a, g2 |-> b]

MaxOf(S) == CHOOSE x \in S : \A y \in S : x >= y

\* A greedy body ([\s\S]*): the last offset where the rest matches.
GreedyEnd(ends) == MaxOf(ends)

\* The lazy body ([\s\S]*?): of the offsets where the rest of the pattern
\* matches, the first.
LazyEnd(ends) == MinOf(ends)

\* A closing tag that takes any number (\d+ in place of \1).
BlockCloseAtAnyNumber(closeLit, s, b, num) ==
    IF ~LitAt(s, b, closeLit) THEN -1
    ELSE LET a == b + Len(closeLit)
             w == RunEnd("space", s, a)
             d == RunEnd("digit", s, w)
             w2 == RunEnd("space", s, d)
         IN  IF w = a \/ d = w \/ w2 = d \/ ~LitAt(s, w2, DescLit) THEN -1
             ELSE w2 + Len(DescLit)

\* The closing tag  <\/Kind\s+\1\s+Desc>  at offset b: its end offset, or -1.
BlockCloseAt(closeLit, s, b, num) ==
    IF ~LitAt(s, b, closeLit) THEN -1
    ELSE LET a == b + Len(closeLit)
             w == RunEnd("space", s, a)
         IN  IF w = a \/ ~LitAt(s, w, num) THEN -1
             ELSE LET d  == w + Len(num)
                      w2 == RunEnd("space", s, d)
                  IN  IF w2 = d \/ ~LitAt(s, w2, DescLit) THEN -1
                      ELSE w2 + Len(DescLit)

\*  <Kind\s+(\d+)\s+Desc>\s*([\s\S]*?)<\/Kind\s+\1\s+Desc>  at offset i.
\* Each greedy quantifier of the tags is followed by a character outside its
\* class, so it takes its whole run.  The \s* after the opening tag takes the
\* whole run too (a closing tag starts with "<", so giving whitespace back to
\* the body opens no other match); the lazy body ends at the first offset
\* where the closing tag matches.
BlockAt(openLit, closeLit, s, i) ==
    IF ~LitAt(s, i, openLit) THEN NoMatch
    ELSE LET a == i + Len(openLit)
             w == RunEnd("space", s, a)
             d == RunEnd("digit", s, w)
             w2 == RunEnd("space", s, d)
         IN  IF w = a \/ d = w \/ w2 = d \/ ~LitAt(s, w2, DescLit) THEN NoMatch
             ELSE LET num  == Slice(s, w, d)
                      b0   == RunEnd("space", s, w2 + Len(DescLit))
                      ends == {b \in b0..Len(s) :
                                  BlockCloseAt(closeLit, s, b, num) >= 0}
                  IN  IF ends = {} THEN NoMatch
                      ELSE LET b == LazyEnd(ends)
                           IN  Match(i, BlockCloseAt(closeLit, s, b, num),
                                     num, Slice(s, b0, b))

editBlockRegex(s, i) == BlockAt(EditOpenLit, EditCloseLit, s, i)

clusterBlockRegex(s, i) == BlockAt(ClusterOpenLit, ClusterCloseLit, s, i)

AddOpenLit == <<"<", "a", "d", "d", ">">>

AddCloseLit == <<"<", "/", "a", "d", "d", ">">>

DelOpenLit == <<"<", "d", "e", "l", ">">>

DelCloseLit == <<"<", "/", "d", "e", "l", ">">>

\*  <(add|del)>([\s\S]*?)<\/\1>  at offset i: group 1 is the tag name, the
\* lazy body ends at the first closing tag of the same name.
SpanAt(openLit, closeLit, name, s, i) ==
    IF ~LitAt(s, i, openLit) THEN NoMatch
    ELSE LET a    == i + Len(openLit)
             ends == {b \in a..Len(s) : LitAt(s, b, closeLit)}
         IN  IF ends = {} THEN NoMatch
             ELSE LET b == LazyEnd(ends)
                  IN  Match(i, b + Len(closeLit), name, Slice(s, a, b))

addDelRegex(s, i) ==
    LET m == SpanAt(AddOpenLit, AddCloseLit, "add", s, i)
    IN  IF m.found THEN m ELSE SpanAt(DelOpenLit, DelCloseLit, "del", s, i)

\* The closing tag  <\/edit\s+\1\s*>  at offset b: its end offset, or -1.
WrapperCloseAt(s, b, num) ==
    IF ~LitAt(s, b, EditCloseLit) THEN -1
    ELSE LET a == b + Len(EditCloseLit)
             w == RunEnd("space", s, a)
         IN  IF w = a \/ ~LitAt(s, w, num) THEN -1
             ELSE LET w2 == RunEnd("space", s, w + Len(num))
                  IN  IF LitAt(s, w2, <<">">>) THEN w2 + 1 ELSE -1

\* The rest of the pattern once (\d+) has taken the digits from w to d:
\* [^>]* runs to the next ">", the lazy body ends at the first closing tag
\* that repeats those digits.
WrapperRest(s, i, w, d) ==
    LET g == RunEnd("notGt", s, d)
    IN  IF g = Len(s) THEN NoMatch
        ELSE LET num  == Slice(s, w, d)
                 ends == {b \in (g + 1)..Len(s) : WrapperCloseAt(s, b, num) >= 0}
             IN  IF ends = {} THEN NoMatch
                 ELSE LET b == LazyEnd(ends)
                      IN  Match(i, WrapperCloseAt(s, b, num), num,
                                Slice(s, g + 1, b))

\* (\d+) is greedy and backtracks: it first takes the whole digit run, then
\* gives the digits back one at a time (to [^>]*) until the rest matches.
RECURSIVE WrapperDigits(_, _, _, _)
WrapperDigits(s, i, w, d) ==
    IF d <= w THEN NoMatch
    ELSE LET m == WrapperRest(s, i, w, d)
         IN  IF m.found THEN m ELSE WrapperDigits(s, i, w, d - 1)

\*  <edit\s+(\d+)[^>]*>([\s\S]*?)<\/edit\s+\1\s*>  at offset i.
editWrapperRegex(s, i) ==
    IF ~LitAt(s, i, EditOpenLit) THEN NoMatch
    ELSE LET a == i + Len(EditOpenLit)
             w == RunEnd("space", s, a)
         IN  IF w = a THEN NoMatch
             ELSE WrapperDigits(s, i, w, RunEnd("digit", s, w))

\* The matches of each global pattern in s, by start offset.
editBlockMatches(s) == [i \in 0..Len(s) |-> editBlockRegex(s, i)]

clusterBlockMatches(s) == [i \in 0..Len(s) |-> clusterBlockRegex(s, i)]

addDelMatches(s) == [i \in 0..Len(s) |-> addDelRegex(s, i)]

editWrapperMatches(s) == [i \in 0..Len(s) |-> editWrapperRegex(s, i)]

\* pattern.exec(s) with pattern.lastIndex = from: the leftmost match at or
\* after lastIndex, or null.
Exec(matchAt, from) ==
    LET hits == {i \in DOMAIN matchAt : i >= from /\ matchAt[i].found}
    IN  IF hits = {} THEN NoMatch ELSE matchAt[MinOf(hits)]

(***************************************************************************)
(* Field extraction inside a block body.                                   *)
(***************************************************************************)
\* A field that falls back to the whole body when its label is missing.
FieldOrBody(body, labels) ==
    LET hits == {i \in 0..Len(body) : \E l \in labels : LitAt(body, i, l)}
    IN  IF hits = {} THEN body
        ELSE LET i  == MinOf(hits)
                 l  == CHOOSE x \in labels : LitAt(body, i, x)
                 a  == i + Len(l)
                 e  == MinOf({k \in a..Len(body) :
                                 k = Len(body) \/ body[k + 1] = LBr})
             IN  Slice(body, a, e)

\* body.match(/LABEL([\s\S]*?)(?=[[|$)/)?.[1] ?? "" for the alternation of
\* labels: the leftmost label, then the text up to the next "[[" or the end.
FieldOf(body, labels) ==
    LET hits == {i \in 0..Len(body) : \E l \in labels : LitAt(body, i, l)}
    IN  IF hits = {} THEN <<>>
        ELSE LET i  == MinOf(hits)
                 l  == CHOOSE x \in labels : LitAt(body, i, x)
                 a  == i + Len(l)
                 e  == MinOf({k \in a..Len(body) :
                                 k = Len(body) \/ body[k + 1] = LBr})
             IN  Slice(body, a, e)

\* body.split(/\n+/)
RECURSIVE SplitLines(_)
SplitLines(s) ==
    LET nl == {i \in 0..(Len(s) - 1) : s[i + 1] = "\n"}
    IN  IF nl = {} THEN <<s>>
        ELSE LET p == MinOf(nl)
                 q == RunEnd("newline", s, p)
             IN  <<Slice(s, 0, p)>> \o SplitLines(Slice(s, q, Len(s)))

Includes(line, phrase) == \E i \in 0..Len(line) : LitAt(line, i, phrase)

\* line.match(/\d+/g).map(parseInt): every maximal digit run, left to right.
RECURSIVE DigitRuns(_)
DigitRuns(line) ==
    LET ds == {i \in 0..(Len(line) - 1) : IsDigit(line[i + 1])}
    IN  IF ds = {} THEN <<>>
        ELSE LET p == MinOf(ds)
                 q == RunEnd("digit", line, p)
             IN  <<ParseInt(Slice(line, p, q))>>
                     \o DigitRuns(Slice(line, q, Len(line)))

\* The digit runs of the whole body once the marker phrase is somewhere in it.
RelatedEditsOfBody(body) ==
    IF Includes(body, MarkerPhrase) THEN DigitRuns(body) ELSE <<>>

\* body.split(/\n+/).find(line => line.includes(marker))?.match(/\d+/g)
\*     ?.map(num => Number.parseInt(num, 10)) ?? []
RelatedEdits(body) ==
    LET lines == SplitLines(body)
        hits  == {k \in 1..Len(lines) : Includes(lines[k], MarkerPhrase)}
    IN  IF hits = {} THEN <<>> ELSE DigitRuns(lines[MinOf(hits)])

Stage1ItemOf(m) ==
    [index   |-> ParseInt(m.g1),
     fact    |-> normalizeWhitespace(FieldOf(m.g2, {FactLabel})),
     insight |-> normalizeWhitespace(
                     FieldOf(m.g2, {InsightLabel, ImplicationLabel}))]

Stage2ClusterOf(m) ==
    [index           |-> ParseInt(m.g1),
     theme           |-> normalizeWhitespace(FieldOf(m.g2, {ThemeLabel})),
     summary         |-> normalizeWhitespace(FieldOf(m.g2, {SummaryLabel})),
     investorInsight |-> normalizeWhitespace(FieldOf(m.g2, {InsightLabel})),
     relatedEdits    |-> RelatedEdits(m.g2)]

(***************************************************************************)
(* parseStage1 and parseStage2.  The loop runs exec on the global pattern  *)
(* from its lastIndex until exec returns null (which resets lastIndex to   *)
(* 0).  The result carries the items, the matches they were built from and *)
(* the lastIndex the pattern is left with.                                 *)
(***************************************************************************)
RECURSIVE Stage1Loop(_, _, _, _)
Stage1Loop(s, from, items, ms) ==
    LET m == Exec(editBlockMatches(s), from)
    IN  IF ~m.found THEN [items |-> items, matches |-> ms, lastIndex |-> 0]
        ELSE Stage1Loop(s, m.end, Append(items, Stage1ItemOf(m)), Append(ms, m))

\* An if in place of the while: one exec, the pattern left where the match
\* ended.
parseStage1FirstOnly(s, from) ==
    IF s = <<>> THEN [items |-> <<>>, matches |-> <<>>, lastIndex |-> from]
    ELSE LET m == Exec(editBlockMatches(s), from)
         IN  IF ~m.found THEN [items |-> <<>>, matches |-> <<>>, lastIndex |-> 0]
             ELSE [items     |-> <<Stage1ItemOf(m)>>,
                   matches   |-> <<m>>,
                   lastIndex |-> m.end]

parseStage1(s, from) ==
    IF s = <<>> THEN [items |-> <<>>, matches |-> <<>>, lastIndex |-> from]
    ELSE Stage1Loop(s, from, <<>>, <<>>)

RECURSIVE Stage2Loop(_, _, _, _)
Stage2Loop(s, from, items, ms) ==
    LET m == Exec(clusterBlockMatches(s), from)
    IN  IF ~m.found THEN [items |-> items, matches |-> ms, lastIndex |-> 0]
        ELSE Stage2Loop(s, m.end, Append(items, Stage2ClusterOf(m)), Append(ms, m))

parseStage2(s, from) ==
    IF s = <<>> THEN [items |-> <<>>, matches |-> <<>>, lastIndex |-> from]
    ELSE Stage2Loop(s, from, <<>>, <<>>)

(***************************************************************************)
(* Optional values (T | null | undefined), and a heading.                  *)
(***************************************************************************)
Absent == [isNull |-> TRUE, value |-> <<>>]

Given(v) == [isNull |-> FALSE, value |-> v]

\* null, and a value that is not null, of a state of the page or the route.
Null == [isNull |-> TRUE]

NonNull(v) == [isNull |-> FALSE, value |-> v]

NoHeading == [isNull |-> TRUE, text |-> <<>>]

Heading(t) == [isNull |-> FALSE, text |-> t]

(***************************************************************************)
(* toDiffSegments.                                                         *)
(***************************************************************************)
\* plainText.length > 0: the trim forgotten.
NonEmpty(s) == s # <<>>

\* The blank test dropped: every gap is pushed.
AnyGap(s) == TRUE

\* plainText.trim().length > 0
NonBlank(s) == \E k \in 1..Len(s) : ~IsSpace(s[k])

\* A segment whose content is trimmed.
TrimmedSegment(type, content) == [type |-> type, content |-> Trim(content)]

Segment(type, content) == [type |-> type, content |-> content]

\* One iteration of the while loop per match; last is the local lastIndex.
RECURSIVE SegmentLoop(_, _, _, _)
SegmentLoop(cleaned, from, last, segs) ==
    LET m == Exec(addDelMatches(cleaned), from)
    IN  IF ~m.found
        THEN LET trailing == Slice(cleaned, last, Len(cleaned))
             IN  [segments  |-> IF NonBlank(trailing)
                                THEN Append(segs, Segment("text", trailing))
                                ELSE segs,
                  lastIndex |-> 0]
        ELSE LET plainText == Slice(cleaned, last, m.index)
                 withText  == IF m.index > last /\ NonBlank(plainText)
                              THEN Append(segs, Segment("text", plainText))
                              ELSE segs
                 type      == IF m.g1 = "add" THEN "add" ELSE "del"
             IN  SegmentLoop(cleaned, m.end, m.end,
                             Append(withText, Segment(type, m.g2)))

\* One exec and no loop: the pattern is left where the first span ended.
toDiffSegmentsFirstOnly(s, from) ==
    [segments  |-> SegmentLoop(s, from, 0, <<>>).segments,
     lastIndex |-> Exec(addDelMatches(s), from).end]

toDiffSegments(s, from) == SegmentLoop(s, from, 0, <<>>)

(***************************************************************************)
(* buildDiffRecords.                                                       *)
(***************************************************************************)
DiffRecord(editIndex, pairIndex, pair, segs) ==
    [editIndex    |-> editIndex,
     sectionIndex |-> pairIndex,
     oldHeading   |-> pair.oldHeading,
     newHeading   |-> pair.newHeading,
     segments     |-> segs]

\* The while loop over one pair's text.  st carries the results, the matches
\* and the lastIndex of the two patterns the loop uses; WrapperLoop is the
\* loop condition (the exec), WrapperIteration the loop body for match m.
RECURSIVE WrapperLoop(_, _, _, _)
RECURSIVE WrapperIteration(_, _, _, _)
WrapperIteration(pair, pairIndex, st, m) ==
    IF ~m.found THEN [st EXCEPT !.wrapperLast = 0]
    ELSE LET t == toDiffSegments(m.g2, st.addDelLast)
         IN  WrapperLoop(pair, pairIndex, m.end,
                 [results     |-> Append(st.results,
                                         DiffRecord(ParseInt(m.g1), pairIndex,
                                                    pair, t.segments)),
                  matches     |-> Append(st.matches, m),
                  entries     |-> Append(st.entries,
                                         [editWrapperRegex |-> m.end,
                                          addDelRegex      |-> st.addDelLast]),
                  wrapperLast |-> m.end,
                  addDelLast  |-> t.lastIndex])

WrapperLoop(pair, pairIndex, from, st) ==
    WrapperIteration(pair, pairIndex, st,
                     Exec(editWrapperMatches(pair.processedSentencePair), from))

\* pairs.forEach((pair, pairIndex) => ...); pairIndex counts from 0.
RECURSIVE ForEachPair(_, _, _)
ForEachPair(ps, k, st) ==
    IF k > Len(ps) THEN st
    ELSE ForEachPair(ps, k + 1, WrapperLoop(ps[k], k - 1, st.wrapperLast, st))

\* The comparator reversed (b.editIndex - a.editIndex).
InsertSortedDescending(r, rs) ==
    LET later == {k \in 1..Len(rs) : rs[k].editIndex < r.editIndex}
        at    == IF later = {} THEN Len(rs) + 1 ELSE MinOf(later)
    IN  SubSeq(rs, 1, at - 1) \o <<r>> \o SubSeq(rs, at, Len(rs))

\* A sort that puts an element before its equals (not stable).
InsertBeforeEquals(r, rs) ==
    LET later == {k \in 1..Len(rs) : rs[k].editIndex >= r.editIndex}
        at    == IF later = {} THEN Len(rs) + 1 ELSE MinOf(later)
    IN  SubSeq(rs, 1, at - 1) \o <<r>> \o SubSeq(rs, at, Len(rs))

InsertSorted(r, rs) ==
    LET later == {k \in 1..Len(rs) : rs[k].editIndex > r.editIndex}
        at    == IF later = {} THEN Len(rs) + 1 ELSE MinOf(later)
    IN  SubSeq(rs, 1, at - 1) \o <<r>> \o SubSeq(rs, at, Len(rs))

\* results.sort((a, b) => a.editIndex - b.editIndex): Array.prototype.sort
\* is stable (ECMAScript 2019), so each element goes after its equals.
RECURSIVE SortByEditIndex(_)
SortByEditIndex(rs) ==
    IF rs = <<>> THEN <<>>
    ELSE InsertSorted(rs[Len(rs)], SortByEditIndex(SubSeq(rs, 1, Len(rs) - 1)))

\* The sort and the return, from the state the forEach left.
SortedResults(st) ==
    [records     |-> SortByEditIndex(st.results),
     produced    |-> st.results,
     matches     |-> st.matches,
     entries     |-> st.entries,
     wrapperLast |-> st.wrapperLast,
     addDelLast  |-> st.addDelLast]

buildDiffRecords(ps, wrapperFrom, addDelFrom) ==
    SortedResults(ForEachPair(ps, 1,
        [results |-> <<>>, matches |-> <<>>, entries |-> <<>>,
         wrapperLast |-> wrapperFrom, addDelLast |-> addDelFrom]))

\* The for loop over record.segments, for one segment type.
RECURSIVE CountType(_, _)
CountType(segs, type) ==
    IF segs = <<>> THEN 0
    ELSE (IF Head(segs).type = type THEN 1 ELSE 0) + CountType(Tail(segs), type)

\* A reducer that counts every segment that is not a del as an add.
CountTextAsAdd(acc, record) ==
    [adds    |-> acc.adds + Len(record.segments) - CountType(record.segments, "del"),
     deletes |-> acc.deletes + CountType(record.segments, "del"),
     edits   |-> acc.edits + 1]

\* The reducer: (acc, record) => { ...; acc.edits += 1; return acc; }
MetricsReducer(acc, record) ==
    [adds    |-> acc.adds + CountType(record.segments, "add"),
     deletes |-> acc.deletes + CountType(record.segments, "del"),
     edits   |-> acc.edits + 1]

\* records.reduce(reducer, { adds: 0, deletes: 0, edits: 0 })
RECURSIVE computeDiffMetrics(_)
computeDiffMetrics(rs) ==
    IF rs = <<>> THEN [adds |-> 0, deletes |-> 0, edits |-> 0]
    ELSE MetricsReducer(computeDiffMetrics(SubSeq(rs, 1, Len(rs) - 1)),
                        rs[Len(rs)])

(***************************************************************************)
(* The narratives the extractors are applied to: up to MaxBlocks blocks,   *)
(* each preceded by separator text.  A block has the digits of its opening *)
(* and of its closing tag and a style (the whitespace inside its tags and  *)
(* its body).                                                              *)
(***************************************************************************)
Nums == {<<"1">>, <<"1", "2">>}

Seps == {<<>>, <<"t", " ", "<", "e", "d", "i", "t", " ", "1", " ">>}

Styles == {"plain", "spaced"}

WsBefore(style) == IF style = "plain" THEN <<" ">> ELSE <<" ", " ">>

WsAfter(style) == IF style = "plain" THEN <<" ">> ELSE <<"\n">>

BodyOf(style) ==
    IF style = "plain" THEN <<"x">>
    ELSE <<" ", LBr, "F", "a", "c", "t", RBr, "y", " ", "\n", "z">>

BlockDescs == [sep : Seps, open : Nums, close : Nums, style : Styles]

RenderBlock(openLit, closeLit, b) ==
    b.sep \o openLit \o WsBefore(b.style) \o b.open \o WsAfter(b.style)
          \o DescLit \o BodyOf(b.style)
          \o closeLit \o WsAfter(b.style) \o b.close \o WsBefore(b.style)
          \o DescLit

RECURSIVE Render(_, _, _)
Render(openLit, closeLit, bs) ==
    IF bs = <<>> THEN <<>>
    ELSE RenderBlock(openLit, closeLit, Head(bs))
             \o Render(openLit, closeLit, Tail(bs))

PatternNames ==
    {"editBlockRegex", "clusterBlockRegex", "addDelRegex", "editWrapperRegex"}

\* Nothing has been called: no results, every pattern at lastIndex 0.
InitOutputs ==
    /\ raw = <<>>
    /\ stage1Items = <<>>
    /\ stage2Clusters = <<>>
    /\ segments = <<>>
    /\ produced = <<>>
    /\ records = <<>>
    /\ metrics = [adds |-> 0, deletes |-> 0, edits |-> 0]
    /\ matches = <<>>
    /\ visibleSections = <<>>
    /\ filteredDiffRecords = <<>>
    /\ lastIndex = [p \in PatternNames |-> 0]
    /\ serverLastIndex = [p \in PatternNames |-> 0]
    /\ nestedEntries = <<>>
    /\ called = "none"
    /\ oldFile = Null
    /\ newFile = Null
    /\ status = "idle"
    /\ error = Null
    /\ result = Null
    /\ ticker = Null
    /\ inFlight = {}
    /\ started = 0
    /\ request = Null
    /\ environment = Null
    /\ response = Null
    /\ tempDirs = 0
    /\ spawned = <<>>

(***************************************************************************)
(* Specification of the block extractors.                                  *)
(***************************************************************************)
InitStage ==
    /\ parts \in UNION {[1..n -> BlockDescs] : n \in 0..MaxBlocks}
    /\ pairs = <<>>
    /\ sections = <<>>
    /\ InitOutputs

\* The state after parseStage1(s) returned r.
Stage1Returned(s, r) ==
    /\ raw' = s
    /\ stage1Items' = r.items
    /\ matches' = r.matches
    /\ lastIndex' = [lastIndex EXCEPT !["editBlockRegex"] = r.lastIndex]
    /\ called' = "parseStage1"
    /\ UNCHANGED <<parts, pairs, stage2Clusters, segments, produced, records,
                   metrics, serverLastIndex, nestedEntries, viewVars, pageVars, routeVars>>

\* A call parseStage1(s): the pattern starts from the lastIndex it was left
\* with.
ParseStage1Of(s) == Stage1Returned(s, parseStage1(s, lastIndex["editBlockRegex"]))

CallParseStage1 == ParseStage1Of(Render(EditOpenLit, EditCloseLit, parts))

\* The state after parseStage2(s) returned r.
Stage2Returned(s, r) ==
    /\ raw' = s
    /\ stage2Clusters' = r.items
    /\ matches' = r.matches
    /\ lastIndex' = [lastIndex EXCEPT !["clusterBlockRegex"] = r.lastIndex]
    /\ called' = "parseStage2"
    /\ UNCHANGED <<parts, pairs, stage1Items, segments, produced, records,
                   metrics, serverLastIndex, nestedEntries, viewVars, pageVars, routeVars>>

ParseStage2Of(s) ==
    Stage2Returned(s, parseStage2(s, lastIndex["clusterBlockRegex"]))

CallParseStage2 == ParseStage2Of(Render(ClusterOpenLit, ClusterCloseLit, parts))

NextStage == CallParseStage1 \/ CallParseStage2

SpecStage == InitStage /\ [][NextStage]_vars

(***************************************************************************)
(* Specification of the segment tokenizer.  The input is a leading gap and *)
(* up to MaxSpans spans  <T>content</T>, each followed by a gap (text      *)
(* outside any span, possibly empty).  No gap holds a complete opening tag *)
(* and no content holds the closing tag of its own span.                   *)
(***************************************************************************)
GapTexts ==
    {<<>>, <<"t">>, <<" ">>,
     <<"<", "/", "a", "d", "d", ">", "<", "a", "d", "d">>}

Contents == {<<"X">>, <<" ">>, <<"<", "d", "e", "l", ">", "Y">>}

SpanDescs == [type : {"add", "del"}, text : Contents, gap : GapTexts]

RenderSpan(p) ==
    (IF p.type = "add" THEN AddOpenLit \o p.text \o AddCloseLit
     ELSE DelOpenLit \o p.text \o DelCloseLit) \o p.gap

RECURSIVE RenderSpans(_)
RenderSpans(ps) ==
    IF ps = <<>> THEN <<>> ELSE RenderSpan(Head(ps)) \o RenderSpans(Tail(ps))

InitSeg ==
    /\ parts \in [lead  : GapTexts,
                  spans : UNION {[1..n -> SpanDescs] : n \in 0..MaxSpans}]
    /\ pairs = <<>>
    /\ sections = <<>>
    /\ InitOutputs

\* The state after toDiffSegments(s) returned r.
SegmentsReturned(s, r) ==
    /\ raw' = s
    /\ segments' = r.segments
    /\ lastIndex' = [lastIndex EXCEPT !["addDelRegex"] = r.lastIndex]
    /\ called' = "toDiffSegments"
    /\ UNCHANGED <<parts, pairs, stage1Items, stage2Clusters, produced,
                   records, metrics, matches, serverLastIndex, nestedEntries,
                   viewVars, pageVars, routeVars>>

ToDiffSegmentsOf(s) ==
    SegmentsReturned(s, toDiffSegments(s, lastIndex["addDelRegex"]))

CallToDiffSegments == ToDiffSegmentsOf(parts.lead \o RenderSpans(parts.spans))

NextSeg == CallToDiffSegments

SpecSeg == InitSeg /\ [][NextSeg]_vars

\* The segments concatenated in order, their types ignored.
RECURSIVE Flatten(_)
Flatten(segs) ==
    IF segs = <<>> THEN <<>> ELSE Head(segs).content \o Flatten(Tail(segs))

TextIfNonBlank(gap) ==
    IF \E k \in 1..Len(gap) : gap[k] \notin {" ", "\n", "\t"}
    THEN <<[type |-> "text", content |-> gap]>>
    ELSE <<>>

\* What the drawn spans and gaps are to yield, read off the input's parts.
RECURSIVE ExpectedAfter(_)
ExpectedAfter(ps) ==
    IF ps = <<>> THEN <<>>
    ELSE <<[type |-> Head(ps).type, content |-> Head(ps).text]>>
             \o TextIfNonBlank(Head(ps).gap) \o ExpectedAfter(Tail(ps))

ExpectedSegments == TextIfNonBlank(parts.lead) \o ExpectedAfter(parts.spans)

Tokenized == called = "toDiffSegments"

\* C2 as stated: the segments of toDiffSegments, concatenated in order with
\* their types ignored, equal the input string exactly.
C2_Lossless == Tokenized => Flatten(segments) = raw

\* C2 amended: the segments concatenated equal the input with the tags of
\* the matched spans and the whitespace-only gaps removed (the contents of
\* the spans and the non-blank gaps, in order); they equal the whole input
\* exactly when the input has no span and is empty or non-blank.
C2_LosslessUpToMarkup ==
    Tokenized =>
        /\ Flatten(segments) = Flatten(ExpectedSegments)
        /\ (Flatten(segments) = raw) <=>
               (parts.spans = <<>> /\ parts.lead # <<" ">>)

C2_Witness ==
    /\ Tokenized
    /\ Len(parts.spans) = 2
    /\ parts.spans[1].gap = <<" ">>
    /\ Flatten(segments) # raw
    /\ Len(segments) = 2

\* C10: toDiffSegments returns, in reading order, one add/del segment per
\* span with the span's literal content, and one text segment for each
\* non-blank gap before, between and after the spans.
C10_SegmentsInReadingOrder == Tokenized => segments = ExpectedSegments

\* pre<add>X</add>mid<del>Y</del>post yields text, add, text, del, text.
C10_Witness ==
    /\ Tokenized
    /\ parts.lead = <<"t">>
    /\ Len(parts.spans) = 2
    /\ segments = <<Segment("text", <<"t">>), Segment("add", <<"X">>),
                    Segment("text", <<"t">>), Segment("del", <<"X">>),
                    Segment("text", <<"t">>)>>

IsText(seg) == seg.type = "text"

IsSpan(seg) == seg.type # "text"

\* The gaps of the drawn input, in order: before the first span, then after
\* each span.
Gaps == <<parts.lead>> \o [k \in 1..Len(parts.spans) |-> parts.spans[k].gap]

HasInk(gap) == \E k \in 1..Len(gap) : gap[k] \notin {" ", "\n", "\t"}

ContentsOf(segs) == [k \in 1..Len(segs) |-> segs[k].content]

\* C11: no text segment of toDiffSegments is empty or whitespace-only; the
\* text segments are exactly the non-blank gaps, in order and untrimmed, and
\* a blank gap is not merged into a neighbour: the add/del segments carry
\* exactly the contents of the spans.
C11_BlankGapsYieldNothing ==
    Tokenized =>
        /\ \A k \in 1..Len(segments) :
               IsText(segments[k]) => HasInk(segments[k].content)
        /\ ContentsOf(SelectSeq(segments, IsText)) = SelectSeq(Gaps, HasInk)
        /\ ContentsOf(SelectSeq(segments, IsSpan))
               = [k \in 1..Len(parts.spans) |-> parts.spans[k].text]

\* " "<add>X</add>" "<del>X</del>t : both blank gaps vanish, the last stays.
C11_Witness ==
    /\ Tokenized
    /\ parts.lead = <<" ">>
    /\ Len(parts.spans) = 2
    /\ parts.spans[1].gap = <<" ">>
    /\ parts.spans[2].gap = <<"t">>
    /\ Len(segments) = 3
    /\ segments[3] = Segment("text", <<"t">>)

(***************************************************************************)
(* Specification of the diff record builder.  The input is up to           *)
(* MaxRegions wrapper regions  <edit N attrs>body</edit M>, each in the    *)
(* same section as the one before it or opening the next section; the      *)
(* sections' texts and headings make the pair list.                        *)
(***************************************************************************)
One == <<"1">>

Two == <<"2">>

Twelve == <<"1", "2">>

\* <<digits of the opening tag, digits of the closing tag>>
TagNumbers ==
    {<<One, One>>, <<Two, Two>>, <<Twelve, Twelve>>,
     <<Twelve, One>>, <<One, Twelve>>, <<One, Two>>}

RegionDescs ==
    [nums : TagNumbers, variant : {"bare", "full"}, sec : {"same", "next"}]

RegionBody(g) ==
    IF g.variant = "bare" THEN <<"a">>
    ELSE <<"u">> \o AddOpenLit \o <<"X">> \o AddCloseLit

RenderRegion(g) ==
    IF g.variant = "bare"
    THEN EditOpenLit \o <<" ">> \o g.nums[1] \o <<">">> \o RegionBody(g)
             \o EditCloseLit \o <<" ">> \o g.nums[2] \o <<">">>
    ELSE <<"t">> \o EditOpenLit \o <<" ", " ">> \o g.nums[1]
             \o <<" ", "k", "=", "2", ">">> \o RegionBody(g)
             \o EditCloseLit \o <<"\n">> \o g.nums[2] \o <<" ", ">">>

\* The section (counted from 0) that region k lies in.
SectionOf(gs, k) == Cardinality({j \in 1..k : gs[j].sec = "next"})

RECURSIVE SectionText(_, _, _)
SectionText(gs, k, sec) ==
    IF k > Len(gs) THEN <<>>
    ELSE (IF SectionOf(gs, k) = sec THEN RenderRegion(gs[k]) ELSE <<>>)
             \o SectionText(gs, k + 1, sec)

DigitChars == <<"0", "1", "2", "3", "4", "5", "6", "7", "8", "9">>

OldHeadingOf(sec) ==
    IF sec = 0 THEN NoHeading ELSE Heading(<<DigitChars[sec + 1], ".">>)

NewHeadingOf(sec) == Heading(<<DigitChars[sec + 2]>>)

ToPairs(gs) ==
    IF gs = <<>> THEN <<>>
    ELSE [k \in 1..(SectionOf(gs, Len(gs)) + 1) |->
             [oldHeading |-> OldHeadingOf(k - 1),
              newHeading |-> NewHeadingOf(k - 1),
              processedSentencePair |-> SectionText(gs, 1, k - 1)]]

InitDiff ==
    /\ parts \in UNION {[1..n -> RegionDescs] : n \in 0..MaxRegions}
    /\ pairs = <<>>
    /\ sections = <<>>
    /\ InitOutputs

\* The state after a call that was given ps and returned r.
Returned(ps, r) ==
    /\ pairs' = ps
    /\ records' = r.records
    /\ produced' = r.produced
    /\ matches' = r.matches
    /\ lastIndex' = [lastIndex EXCEPT !["editWrapperRegex"] = r.wrapperLast,
                                      !["addDelRegex"] = r.addDelLast]
    /\ nestedEntries' = r.entries
    /\ called' = "buildDiffRecords"
    /\ UNCHANGED <<parts, raw, stage1Items, stage2Clusters, segments,
                   metrics, serverLastIndex, viewVars, pageVars, routeVars>>

BuildFrom(ps) ==
    Returned(ps, buildDiffRecords(ps, lastIndex["editWrapperRegex"],
                                  lastIndex["addDelRegex"]))

CallBuildDiffRecords == BuildFrom(ToPairs(parts))

NextDiff == CallBuildDiffRecords

SpecDiff == InitDiff /\ [][NextDiff]_vars

Built == called = "buildDiffRecords"

WellFormed(g) == g.nums[1] = g.nums[2]

\* C1 as stated, for a text of one region: the region yields a record only
\* when the closing number is the complete number of the opening tag, and
\* no record carries an editIndex other than that number.
C1_ClosingRepeatsOpening ==
    Built /\ Len(parts) = 1 =>
        /\ ~WellFormed(parts[1]) => records = <<>>
        /\ \A k \in 1..Len(records) :
               records[k].editIndex = ParseInt(parts[1].nums[1])

\* C5: the list buildDiffRecords returns is sorted ascending by editIndex.
C5_SortedByEditIndex ==
    Built => \A k \in 1..(Len(records) - 1) :
                 records[k].editIndex <= records[k + 1].editIndex

\* Section 0 holds edit 12, section 1 holds edit 2: edit 2 comes first.
C5_Witness ==
    /\ Built
    /\ Len(pairs) = 2
    /\ Len(produced) = 2
    /\ produced[1].editIndex = 12 /\ produced[1].sectionIndex = 0
    /\ produced[2].editIndex = 2 /\ produced[2].sectionIndex = 1
    /\ records = <<produced[2], produced[1]>>

EditIndexes == {records[k].editIndex : k \in 1..Len(records)}

WithEditIndex(rs, e) == SelectSeq(rs, LAMBDA r : r.editIndex = e)

\* C6: records with the same editIndex keep the order they were produced
\* in: ascending sectionIndex, and order of appearance within a section.
C6_StableSort ==
    Built =>
        /\ \A e \in EditIndexes : WithEditIndex(records, e) = WithEditIndex(produced, e)
        /\ \A i, j \in 1..Len(records) :
               i < j /\ records[i].editIndex = records[j].editIndex
                   => records[i].sectionIndex <= records[j].sectionIndex

\* Edit 1 in section 0 and again, with another body, in section 1.
C6_Witness ==
    /\ Built
    /\ Len(records) = 2
    /\ records[1].editIndex = records[2].editIndex
    /\ records[1].sectionIndex = 0
    /\ records[2].sectionIndex = 1
    /\ records[1].segments # records[2].segments

\* The records the well-formed regions of the input are to yield, in the
\* order of the regions.
RECURSIVE ExpectedRecords(_, _)
ExpectedRecords(gs, k) ==
    IF k > Len(gs) THEN <<>>
    ELSE (IF WellFormed(gs[k])
          THEN <<[editIndex    |-> ParseInt(gs[k].nums[1]),
                  sectionIndex |-> SectionOf(gs, k),
                  oldHeading   |-> OldHeadingOf(SectionOf(gs, k)),
                  newHeading   |-> NewHeadingOf(SectionOf(gs, k)),
                  segments     |-> toDiffSegments(RegionBody(gs[k]), 0).segments]>>
          ELSE <<>>) \o ExpectedRecords(gs, k + 1)

\* C7 as stated: exactly one record per well-formed wrapper region, with the
\* region's number, its section's ordinal and headings and the segments of
\* its body; nothing else yields a record.
C7_OneRecordPerRegion == Built => produced = ExpectedRecords(parts, 1)

(***************************************************************************)
(* Specification of the metrics aggregator.  The input is up to MaxRecords *)
(* diff records, each with an editIndex and a list of segments given by    *)
(* their types.                                                            *)
(***************************************************************************)
SegmentTypeLists ==
    {<<>>, <<"add">>, <<"del">>, <<"text">>, <<"add", "del">>,
     <<"text", "add", "text", "del">>}

SegmentsOfTypes(ts) == [k \in 1..Len(ts) |-> Segment(ts[k], <<"x">>)]

MetricRecords ==
    {[editIndex    |-> e,
      sectionIndex |-> 0,
      oldHeading   |-> NoHeading,
      newHeading   |-> NoHeading,
      segments     |-> SegmentsOfTypes(ts)] : e \in {1, 2}, ts \in SegmentTypeLists}

InitMetrics ==
    /\ parts \in UNION {[1..n -> MetricRecords] : n \in 0..MaxRecords}
    /\ pairs = <<>>
    /\ sections = <<>>
    /\ InitOutputs

ComputeDiffMetricsOf(rs) ==
    /\ metrics' = computeDiffMetrics(rs)
    /\ called' = "computeDiffMetrics"
    /\ UNCHANGED <<parts, raw, pairs, stage1Items, stage2Clusters, segments,
                   produced, records, matches, lastIndex, serverLastIndex, nestedEntries,
                   viewVars, pageVars, routeVars>>

CallComputeDiffMetrics == ComputeDiffMetricsOf(parts)

NextMetrics == CallComputeDiffMetrics

SpecMetrics == InitMetrics /\ [][NextMetrics]_vars

Measured == called = "computeDiffMetrics"

\* The number of segments of a type over all the records of rs.
SegmentCount(rs, type) ==
    Cardinality(UNION {{<<i, j>> : j \in {n \in 1..Len(rs[i].segments) :
                                              rs[i].segments[n].type = type}} :
                       i \in 1..Len(rs)})

\* C12: computeDiffMetrics returns adds = the number of add segments over
\* all records, deletes = the number of del segments over all records and
\* edits = the number of records, a repeated editIndex counted once per
\* record; text segments change nothing.
C12_MetricsCountSegmentsAndRecords ==
    Measured =>
        metrics = [adds    |-> SegmentCount(parts, "add"),
                   deletes |-> SegmentCount(parts, "del"),
                   edits   |-> Len(parts)]

\* Three records of the same edit, one add and one del each (one of them
\* with text segments besides): { adds: 3, deletes: 3, edits: 3 }.
C12_Witness ==
    /\ Measured
    /\ Len(parts) = 3
    /\ \A k \in 1..3 : parts[k].editIndex = 1
    /\ Len(parts[1].segments) = 4
    /\ Len(parts[2].segments) = 2
    /\ metrics = [adds |-> 3, deletes |-> 3, edits |-> 3]

(***************************************************************************)
(* Specification of the extractors called one after another, in any order  *)
(* and on changing inputs, each call starting from the lastIndex the       *)
(* earlier calls left in the module-level patterns.                        *)
(***************************************************************************)
PlainBlock(open, close) ==
    [sep |-> <<>>, open |-> open, close |-> close, style |-> "plain"]

SpacedBlock(open, close) ==
    [sep |-> <<"t">>, open |-> open, close |-> close, style |-> "spaced"]

\* Narratives: empty, one block, a block whose closing tag does not repeat
\* its index, two blocks.
BlockLists ==
    {<<>>,
     <<PlainBlock(One, One)>>,
     <<PlainBlock(One, Twelve)>>,
     <<PlainBlock(One, One), SpacedBlock(Twelve, Twelve)>>}

SpanLists ==
    {<<>>,
     <<[type |-> "add", text |-> <<"X">>, gap |-> <<"t">>]>>,
     <<[type |-> "del", text |-> <<"X">>, gap |-> <<" ">>],
       [type |-> "add", text |-> <<"X">>, gap |-> <<>>]>>}

RegionLists ==
    {<<>>,
     <<[nums |-> <<One, One>>, variant |-> "bare", sec |-> "same"]>>,
     <<[nums |-> <<Twelve, Twelve>>, variant |-> "full", sec |-> "same"],
       [nums |-> <<One, One>>, variant |-> "full", sec |-> "next"]>>}

InitCalls ==
    /\ parts = <<>>
    /\ pairs = <<>>
    /\ sections = <<>>
    /\ InitOutputs

AnyParseStage1 ==
    \E bs \in BlockLists : ParseStage1Of(Render(EditOpenLit, EditCloseLit, bs))

AnyParseStage2 ==
    \E bs \in BlockLists :
        ParseStage2Of(Render(ClusterOpenLit, ClusterCloseLit, bs))

AnyToDiffSegments == \E ss \in SpanLists : ToDiffSegmentsOf(RenderSpans(ss))

AnyBuildDiffRecords == \E gs \in RegionLists : BuildFrom(ToPairs(gs))

\* computeDiffMetrics of the records built last.
AnyComputeDiffMetrics == ComputeDiffMetricsOf(records)

NextCalls ==
    \/ AnyParseStage1
    \/ AnyParseStage2
    \/ AnyToDiffSegments
    \/ AnyBuildDiffRecords
    \/ AnyComputeDiffMetrics

SpecCalls == InitCalls /\ [][NextCalls]_vars

\* C15: whatever calls came before, the output of the call made last is the
\* output of the same extractor called first (every pattern at lastIndex 0)
\* on the same argument; so two calls in a row on one argument agree too.
C15_OutputDependsOnArgumentOnly ==
    /\ called = "parseStage1" => stage1Items = parseStage1(raw, 0).items
    /\ called = "parseStage2" => stage2Clusters = parseStage2(raw, 0).items
    /\ called = "toDiffSegments" => segments = toDiffSegments(raw, 0).segments
    /\ called = "buildDiffRecords" =>
           records = buildDiffRecords(pairs, 0, 0).records
    /\ called = "computeDiffMetrics" => metrics = computeDiffMetrics(records)

\* Each of the extractors has been called, parseStage1 last and on a
\* narrative with two blocks.
C15_Witness ==
    /\ called = "parseStage1"
    /\ Len(stage1Items) = 2
    /\ Len(stage2Clusters) = 1
    /\ Len(segments) = 2
    /\ Len(records) = 2
    /\ metrics.edits = 1

AllAtZero(f) == \A p \in DOMAIN f : f[p] = 0

\* C21 as stated: the lastIndex of every module-level pattern is 0 whenever
\* an extractor is entered and when it returns, the entries of
\* toDiffSegments from inside buildDiffRecords' loop included.
C21_LastIndexZeroAtEveryEntry ==
    /\ AllAtZero(lastIndex)
    /\ \A k \in 1..Len(nestedEntries) : AllAtZero(nestedEntries[k])

\* C21 amended: the lastIndex of every pattern is 0 whenever an extractor
\* is called from outside and when that call returns; when toDiffSegments
\* is entered from inside buildDiffRecords' loop the lastIndex of
\* addDelRegex, the pattern it scans with, is 0, and that of
\* editWrapperRegex is the end of the wrapper being processed (not 0),
\* which toDiffSegments neither reads nor writes.
C21_LastIndexZeroBetweenCalls ==
    /\ AllAtZero(lastIndex)
    /\ called = "buildDiffRecords" =>
           /\ Len(nestedEntries) = Len(matches)
           /\ \A k \in 1..Len(nestedEntries) :
                  /\ nestedEntries[k].addDelRegex = 0
                  /\ nestedEntries[k].editWrapperRegex = matches[k].end
                  /\ nestedEntries[k].editWrapperRegex > 0

\* buildDiffRecords returned after entering toDiffSegments twice, the
\* second time from the second section's text.
C21_Witness ==
    /\ called = "buildDiffRecords"
    /\ Len(nestedEntries) = 2
    /\ Len(segments) = 2
    /\ nestedEntries[1].editWrapperRegex > nestedEntries[2].editWrapperRegex
    /\ AllAtZero(lastIndex)

(***************************************************************************)
(* Specification of the extractors on absent, empty and malformed          *)
(* arguments.  An argument is null/undefined or a string made of up to     *)
(* MaxPieces pieces: text, opening tags and closing tags, where no closing *)
(* tag carries the number of an opening tag (openings carry 3 and 12,      *)
(* closings 2 and 1), so no string holds a well-formed block or wrapper.   *)
(***************************************************************************)
\* if (!raw) return [];  for a null or undefined argument.
parseStage1Nullable(arg, from) ==
    IF arg.isNull THEN [items |-> <<>>, matches |-> <<>>, lastIndex |-> from]
    ELSE parseStage1(arg.value, from)

parseStage2Nullable(arg, from) ==
    IF arg.isNull THEN [items |-> <<>>, matches |-> <<>>, lastIndex |-> from]
    ELSE parseStage2(arg.value, from)

\* if (!pairs || pairs.length === 0) return [];
buildDiffRecordsNullable(arg, wrapperFrom, addDelFrom) ==
    IF arg.isNull \/ arg.value = <<>>
    THEN [records |-> <<>>, produced |-> <<>>, matches |-> <<>>,
          entries |-> <<>>,
          wrapperLast |-> wrapperFrom, addDelLast |-> addDelFrom]
    ELSE buildDiffRecords(arg.value, wrapperFrom, addDelFrom)

Pieces ==
    {<<"x">>,
     EditOpenLit \o <<" ", "3", " ">> \o DescLit,
     EditCloseLit \o <<" ", "2", " ">> \o DescLit,
     ClusterOpenLit \o <<" ", "3", " ">> \o DescLit,
     ClusterCloseLit \o <<" ", "2", " ">> \o DescLit,
     EditOpenLit \o <<" ", "1", "2", ">">>,
     EditCloseLit \o <<" ", "1", ">">>,
     EditCloseLit \o <<" ", "2", ">">>}

RECURSIVE Concat(_)
Concat(ss) == IF ss = <<>> THEN <<>> ELSE Head(ss) \o Concat(Tail(ss))

MalformedStrings ==
    {Concat(ss) : ss \in UNION {[1..n -> Pieces] : n \in 0..MaxPieces}}

\* The pair list made of an argument: absent, empty, or one section whose
\* processed text is the string.
PairsOf(arg) ==
    IF arg.isNull THEN Absent
    ELSE IF arg.value = <<>> THEN Given(<<>>)
    ELSE Given(<<[oldHeading |-> NoHeading, newHeading |-> NoHeading,
                  processedSentencePair |-> arg.value]>>)

InitAbsent ==
    /\ parts \in {Absent} \cup {Given(s) : s \in MalformedStrings}
    /\ pairs = <<>>
    /\ sections = <<>>
    /\ InitOutputs

ParseStage1OfNullable ==
    Stage1Returned(parts, parseStage1Nullable(parts, lastIndex["editBlockRegex"]))

ParseStage2OfNullable ==
    Stage2Returned(parts,
                   parseStage2Nullable(parts, lastIndex["clusterBlockRegex"]))

BuildDiffRecordsOfNullable ==
    Returned(PairsOf(parts),
             buildDiffRecordsNullable(PairsOf(parts),
                                      lastIndex["editWrapperRegex"],
                                      lastIndex["addDelRegex"]))

NextAbsent ==
    \/ ParseStage1OfNullable
    \/ ParseStage2OfNullable
    \/ BuildDiffRecordsOfNullable

SpecAbsent == InitAbsent /\ [][NextAbsent]_vars

\* C16 as stated: for a null, undefined or empty argument, and for any
\* string that holds no well-formed block or wrapper, parseStage1,
\* parseStage2 and buildDiffRecords return the empty list.
C16_EmptyForAbsentOrMalformed ==
    /\ called = "parseStage1" => stage1Items = <<>>
    /\ called = "parseStage2" => stage2Clusters = <<>>
    /\ called = "buildDiffRecords" => records = <<>>

(***************************************************************************)
(* Specification of the field extraction.  The narrative is one            *)
(* well-formed block whose body is up to MaxUnits units; a unit is a       *)
(* bracket label, the marker phrase or nothing, followed by a text.        *)
(***************************************************************************)
UnitLabels ==
    {"Fact", "Investor Insight", "Implication", "Theme", "Summary",
     "marker", "none"}

BracketLabels == UnitLabels \ {"marker", "none"}

LabelText(label) ==
    CASE label = "Fact"             -> FactLabel
      [] label = "Investor Insight" -> InsightLabel
      [] label = "Implication"      -> ImplicationLabel
      [] label = "Theme"            -> ThemeLabel
      [] label = "Summary"          -> SummaryLabel
      [] label = "marker"           -> MarkerPhrase
      [] label = "none"             -> <<>>

TwoWords == <<"A", " ", " ", "B", "\n", "\n">>

NumberLine == <<" ", "3", ",", " ", "1", "2", " ", "3", "\n">>

OneWord == <<"C">>

UnitTexts == {TwoWords, NumberLine, OneWord}

UnitDescs == [label : UnitLabels, text : UnitTexts]

RenderUnit(u) == LabelText(u.label) \o u.text

RECURSIVE RenderUnits(_)
RenderUnits(us) ==
    IF us = <<>> THEN <<>> ELSE RenderUnit(Head(us)) \o RenderUnits(Tail(us))

RenderBody(openLit, closeLit, us) ==
    openLit \o <<" ", "4", " ">> \o DescLit \o RenderUnits(us)
            \o closeLit \o <<" ", "4", " ">> \o DescLit

InitFields ==
    /\ parts \in UNION {[1..n -> UnitDescs] : n \in 0..MaxUnits}
    /\ pairs = <<>>
    /\ sections = <<>>
    /\ InitOutputs

ParseStage1Fields == ParseStage1Of(RenderBody(EditOpenLit, EditCloseLit, parts))

ParseStage2Fields ==
    ParseStage2Of(RenderBody(ClusterOpenLit, ClusterCloseLit, parts))

NextFields == ParseStage1Fields \/ ParseStage2Fields

SpecFields == InitFields /\ [][NextFields]_vars

Stage1Called == called = "parseStage1"

Stage2Called == called = "parseStage2"

HasLabel(label) == \E k \in 1..Len(parts) : parts[k].label = label

\* C17: the block is emitted whatever fields its body holds, and a field
\* whose label is absent from the body is the empty string: fact without
\* [[Fact]], insight without an insight label, theme, summary and
\* investorInsight without theirs.
C17_MissingFieldIsEmpty ==
    /\ Stage1Called =>
           /\ Len(stage1Items) = 1
           /\ stage1Items[1].index = 4
           /\ ~HasLabel("Fact") => stage1Items[1].fact = <<>>
           /\ (~HasLabel("Investor Insight") /\ ~HasLabel("Implication"))
                  => stage1Items[1].insight = <<>>
    /\ Stage2Called =>
           /\ Len(stage2Clusters) = 1
           /\ stage2Clusters[1].index = 4
           /\ ~HasLabel("Theme") => stage2Clusters[1].theme = <<>>
           /\ ~HasLabel("Summary") => stage2Clusters[1].summary = <<>>
           /\ ~HasLabel("Investor Insight")
                  => stage2Clusters[1].investorInsight = <<>>

\* A body with a fact and no insight: the item has the fact and an empty
\* insight.
C17_Witness ==
    /\ Stage1Called
    /\ Len(parts) = 2
    /\ parts[1] = [label |-> "Fact", text |-> TwoWords]
    /\ parts[2].label = "Theme"
    /\ Len(stage1Items) = 1
    /\ stage1Items[1].fact = <<"A", " ", "B">>
    /\ stage1Items[1].insight = <<>>

\* The text of the body that a field's pattern captures, read off the units:
\* the text of the first unit with one of the labels, then every following
\* unit up to the next bracket label.
RECURSIVE Continuation(_)
Continuation(us) ==
    IF us = <<>> \/ Head(us).label \in BracketLabels THEN <<>>
    ELSE RenderUnit(Head(us)) \o Continuation(Tail(us))

FieldContent(labels) ==
    LET hits == {k \in 1..Len(parts) : parts[k].label \in labels}
    IN  IF hits = {} THEN <<>>
        ELSE LET k == CHOOSE x \in hits : \A y \in hits : x <= y
             IN  parts[k].text \o Continuation(SubSeq(parts, k + 1, Len(parts)))

Blank(c) == c \in {" ", "\n", "\t"}

\* The words of a text: its maximal runs of non-whitespace characters.
RECURSIVE Words(_)
Words(t) ==
    IF t = <<>> THEN <<>>
    ELSE IF Blank(t[1]) THEN Words(Tail(t))
    ELSE LET n == CHOOSE k \in 1..Len(t) :
                      /\ \A j \in 1..k : ~Blank(t[j])
                      /\ (k = Len(t) \/ Blank(t[k + 1]))
         IN  <<SubSeq(t, 1, n)>> \o Words(SubSeq(t, n + 1, Len(t)))

RECURSIVE JoinWords(_)
JoinWords(ws) ==
    IF ws = <<>> THEN <<>>
    ELSE IF Len(ws) = 1 THEN ws[1]
    ELSE ws[1] \o <<" ">> \o JoinWords(Tail(ws))

ExpectedField(labels) == JoinWords(Words(FieldContent(labels)))

\* No whitespace at either end, none but single spaces inside.
Tidy(v) ==
    /\ v # <<>> => (~Blank(v[1]) /\ ~Blank(v[Len(v)]))
    /\ \A k \in 1..Len(v) : Blank(v[k]) => v[k] = " "
    /\ \A k \in 1..(Len(v) - 1) : ~(Blank(v[k]) /\ Blank(v[k + 1]))

\* C18: each extracted field is the text from its label to the next
\* bracket label or the end of the body, with every run of whitespace
\* replaced by one space and the ends trimmed: it neither starts nor ends
\* with whitespace, holds no two whitespace characters in a row, and
\* normalizing it again changes nothing.
C18_FieldsAreNormalizedContent ==
    /\ Stage1Called =>
           LET item == stage1Items[1]
           IN  /\ item.fact = ExpectedField({"Fact"})
               /\ item.insight = ExpectedField({"Investor Insight", "Implication"})
               /\ Tidy(item.fact) /\ Tidy(item.insight)
               /\ normalizeWhitespace(item.fact) = item.fact
               /\ normalizeWhitespace(item.insight) = item.insight
    /\ Stage2Called =>
           LET cluster == stage2Clusters[1]
           IN  /\ cluster.theme = ExpectedField({"Theme"})
               /\ cluster.summary = ExpectedField({"Summary"})
               /\ ~HasLabel("Implication") =>
                      cluster.investorInsight = ExpectedField({"Investor Insight"})
               /\ Tidy(cluster.theme) /\ Tidy(cluster.summary)
               /\ Tidy(cluster.investorInsight)
               /\ normalizeWhitespace(cluster.theme) = cluster.theme
               /\ normalizeWhitespace(cluster.summary) = cluster.summary

\* [[Fact]]A  B\n\n[[Investor Insight]]C  gives fact "A B", insight "C".
C18_Witness ==
    /\ Stage1Called
    /\ parts = <<[label |-> "Fact", text |-> TwoWords],
                 [label |-> "Investor Insight", text |-> OneWord]>>
    /\ stage1Items[1].fact = <<"A", " ", "B">>
    /\ stage1Items[1].insight = <<"C">>

\* C19 as stated: [[Investor Insight]] and [[Implication]] are synonyms for
\* the insight field in Stage-1 and Stage-2 bodies alike: when exactly one
\* of the two labels is in the body the insight is that label's normalized
\* content, and when neither is the insight is empty.
C19_InsightLabelsAreSynonyms ==
    LET both    == {"Investor Insight", "Implication"}
        one     == HasLabel("Investor Insight") # HasLabel("Implication")
        neither == ~HasLabel("Investor Insight") /\ ~HasLabel("Implication")
    IN  /\ Stage1Called =>
               /\ one => stage1Items[1].insight = ExpectedField(both)
               /\ neither => stage1Items[1].insight = <<>>
        /\ Stage2Called =>
               /\ one => stage2Clusters[1].investorInsight = ExpectedField(both)
               /\ neither => stage2Clusters[1].investorInsight = <<>>

\* The numbers on the rest of the line that starts with the first of the
\* units us: NumberLine holds 3, 12, 3 and ends the line, TwoWords holds no
\* digit and ends the line, OneWord holds no digit and the line goes on
\* with the next unit (no label holds a digit).
RECURSIVE LineNumbers(_)
LineNumbers(us) ==
    IF us = <<>> THEN <<>>
    ELSE IF Head(us).text = NumberLine THEN <<3, 12, 3>>
    ELSE IF Head(us).text = TwoWords THEN <<>>
    ELSE LineNumbers(Tail(us))

\* What comes before the marker phrase on its line is labels and OneWord
\* texts only, so the numbers of the marker's line are those that follow it.
ExpectedRelatedEdits ==
    LET hits == {k \in 1..Len(parts) : parts[k].label = "marker"}
    IN  IF hits = {} THEN <<>>
        ELSE LET k == CHOOSE x \in hits : \A y \in hits : x <= y
             IN  LineNumbers(SubSeq(parts, k, Len(parts)))

\* C20: relatedEdits is the list of the digit runs of the first body line
\* that holds the marker phrase, as integers, in order of appearance with
\* duplicates kept; it is empty when no line holds the marker phrase, and
\* digits on other lines do not contribute.
C20_RelatedEditsOfMarkerLine ==
    Stage2Called => stage2Clusters[1].relatedEdits = ExpectedRelatedEdits

\* A line of numbers, then the marker phrase's line with 3, 12, 3.
C20_Witness ==
    /\ Stage2Called
    /\ Len(parts) = 2
    /\ parts[1].text = NumberLine /\ parts[1].label # "marker"
    /\ parts[2] = [label |-> "marker", text |-> NumberLine]
    /\ stage2Clusters[1].relatedEdits = <<3, 12, 3>>

(***************************************************************************)
(* Claims about the block extractors.                                      *)
(***************************************************************************)
\* A complete opening tag  <Kind\s+\d+\s+Desc>  at offset i.
OpenTagAt(openLit, s, i) ==
    /\ LitAt(s, i, openLit)
    /\ LET a  == i + Len(openLit)
           w  == RunEnd("space", s, a)
           d  == RunEnd("digit", s, w)
           w2 == RunEnd("space", s, d)
       IN  w > a /\ d > w /\ w2 > d /\ LitAt(s, w2, DescLit)

HoldsOpenTag(openLit, s) == \E i \in 0..Len(s) : OpenTagAt(openLit, s, i)

NoCrossing(openLit) ==
    /\ \A k \in 1..Len(matches) : ~HoldsOpenTag(openLit, matches[k].g2)
    /\ \A k \in 1..(Len(matches) - 1) : matches[k].end <= matches[k + 1].index

\* C3 as stated: no emitted item is built from a body that holds another
\* opening tag of the same kind, and the matches do not overlap.
C3_BodyStopsAtNextOpeningTag ==
    /\ Stage1Called => NoCrossing(EditOpenLit)
    /\ Stage2Called => NoCrossing(ClusterOpenLit)

AllWellFormed == \A k \in 1..Len(parts) : parts[k].open = parts[k].close

ExpectedIndexes == [k \in 1..Len(parts) |-> ParseInt(parts[k].open)]

IndexesOf(items) == [k \in 1..Len(items) |-> items[k].index]

\* C8: a narrative of k well-formed blocks (any whitespace around N in the
\* tags, any text between them) yields exactly k items, in document order,
\* the i-th carrying the i-th block's index; for edit and Cluster blocks.
C8_OneItemPerBlock ==
    /\ Stage1Called /\ AllWellFormed => IndexesOf(stage1Items) = ExpectedIndexes
    /\ Stage2Called /\ AllWellFormed => IndexesOf(stage2Clusters) = ExpectedIndexes

C8_Witness ==
    /\ Stage2Called
    /\ Len(parts) = 2
    /\ parts[1].style = "spaced" /\ parts[1].sep # <<>>
    /\ parts[2].style = "plain" /\ parts[2].sep # <<>>
    /\ IndexesOf(stage1Items) = <<12, 1>>
    /\ IndexesOf(stage2Clusters) = <<12, 1>>

\* No closing tag repeats the index of its own block's opening tag or of an
\* earlier block's.
NoClosingRepeats ==
    \A i, j \in 1..Len(parts) : i <= j => parts[i].open # parts[j].close

\* C9: blocks whose closing index differs from the opening index yield no
\* item: the result is the empty list.
C9_MismatchYieldsNothing ==
    /\ Stage1Called /\ NoClosingRepeats => stage1Items = <<>>
    /\ Stage2Called /\ NoClosingRepeats => stage2Clusters = <<>>

C9_Witness ==
    /\ Stage1Called
    /\ Len(parts) = 1
    /\ parts[1].open = <<"1">> /\ parts[1].close = <<"1", "2">>
    /\ HoldsOpenTag(EditOpenLit, raw)
    /\ stage1Items = <<>>

(***************************************************************************)
(* SectionViewer: the heading filter.  The page hands it the section       *)
(* records of the payload and buildDiffRecords of the payload's pairs.     *)
(* A section record is modelled by its index and headings (its contents    *)
(* play no part in the filter).                                            *)
(***************************************************************************)
isChapterOneHeading(h) == ~h.isNull /\ h.text # <<>> /\ h.text[1] = "1"

NoSection == [index |-> -1, oldHeading |-> NoHeading, newHeading |-> NoHeading]

\* sectionMap.get(i) after sections.forEach(s => sectionMap.set(s.index, s)):
\* the last section with that index, or undefined.
SectionMapGet(secs, i) ==
    LET hits == {k \in 1..Len(secs) : secs[k].index = i}
    IN  IF hits = {} THEN NoSection ELSE secs[MaxOf(hits)]

\* a ?? b
Coalesce(a, b) == IF a.isNull THEN b ELSE a

\* The test passed as soon as one of the two headings is in scope.
EitherHeadingInScope(section) ==
    isChapterOneHeading(section.oldHeading) \/ isChapterOneHeading(section.newHeading)

\* The callback of diffRecords.filter.
RecordKept(secs, rec) ==
    LET section    == SectionMapGet(secs, rec.sectionIndex)
        oldHeading == Coalesce(rec.oldHeading, section.oldHeading)
        newHeading == Coalesce(rec.newHeading, section.newHeading)
    IN  isChapterOneHeading(oldHeading) /\ isChapterOneHeading(newHeading)

SectionVisible(section) ==
    isChapterOneHeading(section.oldHeading) /\ isChapterOneHeading(section.newHeading)

InScope == Heading(<<"1", ".">>)

OutOfScope == Heading(<<"2", ".", "1">>)

\* <<oldHeading, newHeading>>
HeadingChoices ==
    {<<InScope, InScope>>, <<InScope, OutOfScope>>, <<OutOfScope, InScope>>,
     <<NoHeading, InScope>>, <<InScope, NoHeading>>, <<NoHeading, NoHeading>>,
     <<Heading(<<>>), InScope>>}

\* Every pair of the view holds one well-formed wrapper with one add span.
ViewText == RenderRegion([nums |-> <<One, One>>, variant |-> "full", sec |-> "same"])

ViewPairs ==
    {[oldHeading |-> h[1], newHeading |-> h[2], processedSentencePair |-> ViewText] :
        h \in HeadingChoices}

ViewSections ==
    {[index |-> i, oldHeading |-> h[1], newHeading |-> h[2]] :
        i \in 0..MaxViewPairs, h \in HeadingChoices}

InitView ==
    /\ parts = <<>>
    /\ pairs \in UNION {[1..n -> ViewPairs] : n \in 1..MaxViewPairs}
    /\ sections \in UNION {[1..n -> ViewSections] : n \in 0..MaxViewSections}
    /\ InitOutputs

\* The metrics over the kept records only.
MetricsAfterFilter(diffRecords) ==
    computeDiffMetrics(SelectSeq(diffRecords, LAMBDA r : RecordKept(sections, r)))

\* payload.metrics = computeDiffMetrics(diffRecords)
PayloadMetrics(diffRecords) == computeDiffMetrics(diffRecords)

\* The state after the route built r from the processed pairs.
Responded(r) ==
    /\ metrics' = PayloadMetrics(r.records)
    /\ serverLastIndex' =
           [serverLastIndex EXCEPT !["editWrapperRegex"] = r.wrapperLast,
                                   !["addDelRegex"] = r.addDelLast]
    /\ called' = "POST"
    /\ UNCHANGED <<parts, raw, pairs, stage1Items, stage2Clusters, segments,
                   produced, records, matches, lastIndex, nestedEntries,
                   viewVars, pageVars, routeVars>>

\* The POST route, once the processed pairs are read: it builds the diff
\* records and puts their metrics in the payload.
PostRun ==
    /\ called = "none"
    /\ Responded(buildDiffRecords(pairs, serverLastIndex["editWrapperRegex"],
                                  serverLastIndex["addDelRegex"]))

\* The page's useMemo, once the payload is there:
\* diffRecords = buildDiffRecords(processedSentencePairs)
ComputeDiffRecords ==
    /\ called = "POST"
    /\ BuildFrom(pairs)

RenderSectionViewer ==
    /\ called = "buildDiffRecords"
    /\ visibleSections' = SelectSeq(sections, SectionVisible)
    /\ filteredDiffRecords' = SelectSeq(records, LAMBDA r : RecordKept(sections, r))
    /\ called' = "SectionViewer"
    /\ UNCHANGED <<parts, raw, pairs, stage1Items, stage2Clusters, segments,
                   produced, records, metrics, matches, lastIndex,
                   serverLastIndex, nestedEntries, sections, pageVars,
                   routeVars>>

NextView == PostRun \/ ComputeDiffRecords \/ RenderSectionViewer

SpecView == InitView /\ [][NextView]_vars

Rendered == called = "SectionViewer"

Shown(rec) == \E k \in 1..Len(filteredDiffRecords) : filteredDiffRecords[k] = rec

HasOwningSection(rec) == \E k \in 1..Len(sections) : sections[k].index = rec.sectionIndex

OwningSection(rec) ==
    sections[MaxOf({k \in 1..Len(sections) : sections[k].index = rec.sectionIndex})]

\* C4 as stated: a record with an owning section is shown exactly when that
\* section's headings are in scope, whatever its own headings are; a record
\* with no owning section is shown exactly when its own headings are.
C4_OwningSectionDecides ==
    Rendered =>
        \A k \in 1..Len(records) :
            LET rec == records[k]
            IN  Shown(rec) <=>
                    IF HasOwningSection(rec)
                    THEN /\ isChapterOneHeading(OwningSection(rec).oldHeading)
                         /\ isChapterOneHeading(OwningSection(rec).newHeading)
                    ELSE /\ isChapterOneHeading(rec.oldHeading)
                         /\ isChapterOneHeading(rec.newHeading)

IsVisible(section) ==
    \E k \in 1..Len(visibleSections) : visibleSections[k] = section

BothInScope(x) == x.oldHeading = InScope /\ x.newHeading = InScope

C14_MetricsUpstreamOfFilter ==
    Rendered =>
        /\ metrics = [adds |-> Len(pairs), deletes |-> 0, edits |-> Len(pairs)]
        /\ metrics.edits = Len(records)
        /\ metrics.adds = SegmentCount(records, "add")
        /\ metrics.deletes = SegmentCount(records, "del")

\* The filter drops the only record; the metrics still count it.
C14_Witness ==
    /\ Rendered
    /\ Len(records) = 1
    /\ filteredDiffRecords = <<>>
    /\ metrics = [adds |-> 1, deletes |-> 0, edits |-> 1]

(***************************************************************************)
(* The page: FileUploader, usePythonRunner and HomePage.  A call of run is *)
(* named by the ticker handleSubmit generated for it (the number of the    *)
(* call); it stays in flight from the call until its fetch settles.  The   *)
(* state updates of one event handler, or of one settled call together     *)
(* with the continuation of handleSubmit, are one step.                    *)
(***************************************************************************)
MaxRuns == 3

extractorVars ==
    <<parts, raw, pairs, stage1Items, stage2Clusters, segments, produced,
      records, metrics, matches, lastIndex, serverLastIndex, nestedEntries,
      called, viewVars>>

FileKinds == {"old", "new"}

FileChoices == {Null, NonNull("a.pdf")}

\* The messages run can fail with: the response was not ok, or the fetch
\* itself was rejected.
FailureMessages == {"HTTP 500", "Failed to fetch"}

InitPage ==
    /\ parts = <<>>
    /\ pairs = <<>>
    /\ sections = <<>>
    /\ InitOutputs

isRunning == status = "running"

\* Boolean(oldFile && newFile && !isLoading); the submit button is disabled
\* when it is false.
isReady == ~oldFile.isNull /\ ~newFile.isNull /\ ~isRunning

\* The reset button is rendered when result is set.
ResetShown == ~result.isNull

handleFileChange(kind, f) ==
    /\ oldFile' = IF kind = "old" THEN f ELSE oldFile
    /\ newFile' = IF kind = "old" THEN newFile ELSE f
    /\ UNCHANGED <<status, error, result, ticker, inFlight, started,
                   extractorVars, routeVars>>

\* run, up to its fetch: setStatus("running"); setError(null).
run(t) ==
    /\ status' = "running"
    /\ error' = Null
    /\ inFlight' = inFlight \cup {t}
    /\ UNCHANGED result

\* A click on the submit button: FileUploader's handleSubmit, then the
\* page's, which generates the ticker and calls run.
handleSubmit ==
    /\ isReady
    /\ started < MaxRuns
    /\ started' = started + 1
    /\ run(started + 1)
    /\ UNCHANGED <<oldFile, newFile, ticker, extractorVars, routeVars>>

\* The call t of run resolves: setResult(data.payload); setStatus("success");
\* then handleSubmit sets the ticker of the payload.
RunResolves(t) ==
    /\ t \in inFlight
    /\ inFlight' = inFlight \ {t}
    /\ result' = NonNull([ticker |-> t])
    /\ status' = "success"
    /\ ticker' = NonNull(t)
    /\ UNCHANGED <<oldFile, newFile, error, started, extractorVars, routeVars>>

\* The call t of run rejects: setStatus("error"); setError(message);
\* handleSubmit swallows the exception.
RunRejects(t, message) ==
    /\ t \in inFlight
    /\ inFlight' = inFlight \ {t}
    /\ status' = "error"
    /\ error' = NonNull(message)
    /\ UNCHANGED <<oldFile, newFile, result, ticker, started, extractorVars,
                   routeVars>>

\* setResult(null); setError(null); setStatus("idle").
reset ==
    /\ result' = Null
    /\ error' = Null
    /\ status' = "idle"

\* A click on the reset button.
handleReset ==
    /\ ResetShown
    /\ reset
    /\ ticker' = Null
    /\ UNCHANGED <<oldFile, newFile, inFlight, started, extractorVars,
                   routeVars>>

SelectFile == \E kind \in FileKinds, f \in FileChoices : handleFileChange(kind, f)

Resolve == \E t \in inFlight : RunResolves(t)

Reject == \E t \in inFlight, message \in FailureMessages : RunRejects(t, message)

NextPage == SelectFile \/ handleSubmit \/ Resolve \/ Reject \/ handleReset

SpecPage == InitPage /\ [][NextPage]_vars

\* C22: at most one call of run is in flight at any time, over every
\* interleaving of file selection, submit, completion and reset.
C22_AtMostOneRunInFlight == Cardinality(inFlight) <= 1

\* C23: status "success" implies a result and no error, status "error"
\* implies an error, status "running" implies no error.
C23_StatusDeterminesResultAndError ==
    /\ status = "success" => ~result.isNull /\ error.isNull
    /\ status = "error" => ~error.isNull
    /\ status = "running" => error.isNull

\* What reset and handleReset leave behind.
Quiet ==
    /\ status = "idle"
    /\ result.isNull
    /\ error.isNull
    /\ ticker.isNull

\* C24: once reset and handleReset have run, status stays "idle" and
\* result, error and ticker stay null until the next submit (the only step
\* that starts a call of run); the completion of a call started before the
\* reset changes none of them.
C24_ResetIsDurable == [][(Quiet /\ started' = started) => Quiet']_vars

(***************************************************************************)
(* The POST route of /api/run.  A request is its form data; the            *)
(* environment is what the file system and the subprocesses do while the   *)
(* request is handled.  A form entry is null, a text field or a file with  *)
(* the extension of its name and its MIME type.  A result file is missing  *)
(* or holds a JSON array or a JSON object.                                 *)
(***************************************************************************)
FormText == [isFile |-> FALSE, ext |-> "", type |-> ""]

FormFile(ext, type) == [isFile |-> TRUE, ext |-> ext, type |-> type]

Docs ==
    {Null, NonNull(FormText),
     NonNull(FormFile("pdf", "")), NonNull(FormFile("bin", "application/pdf")),
     NonNull(FormFile("zip", "application/x-zip-compressed")),
     NonNull(FormFile("txt", "text/plain"))}

LegacyDocs == {Null, NonNull(FormFile("pdf", "application/pdf"))}

Requests ==
    [oldDoc : Docs, oldPdf : LegacyDocs, newDoc : Docs, newPdf : LegacyDocs,
     ticker : {Null, NonNull("t1")}]

Missing == [kind |-> "missing", value |-> <<>>]

JsonObject == [kind |-> "object", value |-> <<>>]

JsonArray(v) == [kind |-> "array", value |-> v]

SamplePair ==
    [oldHeading |-> InScope, newHeading |-> InScope,
     processedSentencePair |-> ViewText]

Environments ==
    [fs         : {"ok", "mkdtemp", "writeFile"},
     unzipExit  : {0, 9},
     xbrlRoot   : BOOLEAN,
     pythonExit : {0, 1},
     summary    : {Missing, JsonObject},
     processedAligned : {Missing, JsonObject, JsonArray(<<>>),
                         JsonArray(<<SamplePair>>)},
     aligned    : {Missing, JsonObject, JsonArray(<<>>)},
     processedPairs : {Missing, JsonArray(<<>>)}]

\* a ?? b
Coalesce2(a, b) == IF a.isNull THEN b ELSE a

\* v instanceof File
IsFile(v) == ~v.isNull /\ v.value.isFile

isPdf(f) == f.ext = "pdf" \/ f.type = "application/pdf"

isZip(f) ==
    \/ f.ext = "zip"
    \/ f.type = "application/zip"
    \/ f.type = "application/x-zip-compressed"

Threw(message, sp) == [threw |-> TRUE, message |-> message, spawned |-> sp]

Prepared(sp) == [threw |-> FALSE, message |-> "", spawned |-> sp]

\* prepareDocument: what it throws, if it throws, and the subprocesses it
\* started.
prepareDocument(f, e) ==
    IF isPdf(f)
    THEN IF e.fs = "writeFile" THEN Threw("EIO: write failed", <<>>)
         ELSE Prepared(<<>>)
    ELSE IF isZip(f)
    THEN IF e.fs = "writeFile" THEN Threw("EIO: write failed", <<>>)
         ELSE IF e.unzipExit # 0
         THEN Threw("unzip exited with code", <<"unzip">>)
         ELSE IF ~e.xbrlRoot
         THEN Threw("no XBRLData directory in the ZIP", <<"unzip">>)
         ELSE Prepared(<<"unzip">>)
    ELSE Threw("upload a PDF or an XBRL ZIP", <<>>)

BadRequest ==
    [status |-> 400, success |-> FALSE,
     message |-> NonNull("oldDoc and newDoc are both required"),
     payload |-> Null]

\* The catch block.
ServerError(message) ==
    [status |-> 500, success |-> FALSE, message |-> NonNull(message),
     payload |-> Null]

Success(p) ==
    [status |-> 200, success |-> TRUE, message |-> Null, payload |-> NonNull(p)]

Outcome(r, dirs, sp) == [response |-> r, tempDirs |-> dirs, spawned |-> sp]

\* readJsonFile: null when the file cannot be read.
readJsonFile(f) == IF f.kind = "missing" THEN Null ELSE NonNull(f)

\* The first candidate diff file that can be read, or null.
FirstDiffFile(e) ==
    Coalesce2(readJsonFile(e.processedAligned),
              Coalesce2(readJsonFile(e.aligned), readJsonFile(e.processedPairs)))

\* The metrics attached whether or not processed pairs were read.
MetricsAlways(processedPairs) ==
    IF processedPairs.isNull THEN NonNull(PayloadMetrics(<<>>))
    ELSE NonNull(PayloadMetrics(
             buildDiffRecords(processedPairs.value, 0, 0).records))

\* if (processedPairs) payload.metrics = computeDiffMetrics(buildDiffRecords(..))
MetricsOf(processedPairs) ==
    IF processedPairs.isNull THEN Null
    ELSE NonNull(PayloadMetrics(
             buildDiffRecords(processedPairs.value, 0, 0).records))

Payload(tk, processedPairs, e) ==
    [ticker                 |-> tk,
     stage1                 |-> <<>>,
     stage2                 |-> <<>>,
     processedSentencePairs |-> processedPairs,
     sectionContents        |-> IF e.aligned.kind = "missing" THEN Null
                                ELSE NonNull(e.aligned.value),
     metrics                |-> MetricsOf(processedPairs)]

\* The route from the summary file on; found is the diff file read first.
\* normalizeProcessedPairs and normalizeSentencePairs call raw.map, which
\* throws for a JSON object.
AfterPython(tk, e, found, sp) ==
    IF e.summary.kind = "missing"
    THEN Outcome(ServerError("no summary JSON"), 1, sp)
    ELSE IF ~found.isNull /\ found.value.kind # "array"
    THEN Outcome(ServerError("raw.map is not a function"), 1, sp)
    ELSE IF e.aligned.kind = "object"
    THEN Outcome(ServerError("raw.map is not a function"), 1, sp)
    ELSE Outcome(Success(Payload(tk,
                     IF found.isNull THEN Null ELSE NonNull(found.value.value),
                     e)), 1, sp)

\* runPythonScript, after both documents are prepared.
AfterPrepare(tk, e, sp) ==
    IF e.pythonExit # 0
    THEN Outcome(ServerError("Python script exited with code"), 1,
                 Append(sp, "python"))
    ELSE AfterPython(tk, e, FirstDiffFile(e), Append(sp, "python"))

AfterOld(tk, new, e, sp) ==
    IF prepareDocument(new, e).threw
    THEN Outcome(ServerError(prepareDocument(new, e).message), 1,
                 sp \o prepareDocument(new, e).spawned)
    ELSE AfterPrepare(tk, e, sp \o prepareDocument(new, e).spawned)

\* The try block.
Try(tk, old, new, e) ==
    IF e.fs = "mkdtemp" THEN Outcome(ServerError("ENOSPC: mkdtemp"), 0, <<>>)
    ELSE IF prepareDocument(old, e).threw
    THEN Outcome(ServerError(prepareDocument(old, e).message), 1,
                 prepareDocument(old, e).spawned)
    ELSE AfterOld(tk, new, e, prepareDocument(old, e).spawned)

\* The handler for the documents read from the form data.
Handle(oldDoc, newDoc, tk, e) ==
    IF ~IsFile(oldDoc) \/ ~IsFile(newDoc) THEN Outcome(BadRequest, 0, <<>>)
    ELSE Try(tk, oldDoc.value, newDoc.value, e)

Replied(req, e, o) ==
    /\ request' = NonNull(req)
    /\ environment' = NonNull(e)
    /\ response' = NonNull(o.response)
    /\ tempDirs' = o.tempDirs
    /\ spawned' = o.spawned
    /\ UNCHANGED <<extractorVars, pageVars>>

\* The route handles one request, in one environment.
POST ==
    /\ response.isNull
    /\ \E req \in Requests, e \in Environments :
           Replied(req, e,
                   Handle(Coalesce2(req.oldDoc, req.oldPdf),
                          Coalesce2(req.newDoc, req.newPdf),
                          IF req.ticker.isNull THEN "temp" ELSE req.ticker.value,
                          e))

NextRoute == POST

SpecRoute == InitPage /\ [][NextRoute]_vars

\* The documents of the request, as the route reads them.
OldDocOf(req) == Coalesce2(req.oldDoc, req.oldPdf)

NewDocOf(req) == Coalesce2(req.newDoc, req.newPdf)

DocsMissing(req) == ~IsFile(OldDocOf(req)) \/ ~IsFile(NewDocOf(req))

Unsupported(d) == ~isPdf(d.value) /\ ~isZip(d.value)

Unzipped(d) == ~isPdf(d.value) /\ isZip(d.value)

\* One of the failures of a later step: an unsupported file type, an unzip
\* or Python exit code that is not 0, no summary JSON.
LaterStepFails(req, e) ==
    \/ Unsupported(OldDocOf(req))
    \/ Unsupported(NewDocOf(req))
    \/ (Unzipped(OldDocOf(req)) \/ Unzipped(NewDocOf(req))) /\ e.unzipExit # 0
    \/ e.pythonExit # 0
    \/ e.summary.kind = "missing"

DiffFileFound(e) ==
    \/ e.processedAligned.kind # "missing"
    \/ e.aligned.kind # "missing"
    \/ e.processedPairs.kind # "missing"

Shape400(r) == r.status = 400 /\ ~r.success /\ r.payload.isNull

Shape500(r) ==
    r.status = 500 /\ ~r.success /\ ~r.message.isNull /\ r.payload.isNull

ShapeSuccess(r) == r.status = 200 /\ r.success /\ ~r.payload.isNull

=============================================================================
